---- MODULE Spec2Model ----
(***************************************************************************)
(* Model of the HR1 household-impact dashboard (src/github_clueless.py).   *)
(* One render pass of main() is one step: filter the record store, select  *)
(* a household, look it up, compute the impact summary, the reform         *)
(* components, the waterfall, its verification and the story summary.      *)
(*                                                                         *)
(* Units: currency amounts are integers in cents, percentages are integers *)
(* in sixteenths of a percent, weights and ages are integers.                *)
(***************************************************************************)
EXTENDS Integers, Sequences, FiniteSets, TLC

VARIABLES df, inp, random_household, out

vars == <<df, inp, random_household, out>>

(***************************************************************************)
(* Bounds of the model.                                                    *)
(***************************************************************************)
MaxRows == 2          \* rows of a record store (selection)
MaxFilterRows == 2    \* rows of a record store (filter)
MaxNonZero == 2       \* reform components of a household with a non-zero delta
MaxRankRows == 22     \* rows of a record store (ranking)

(***************************************************************************)
(* Small helpers.                                                          *)
(***************************************************************************)
Abs(x) == IF x < 0 THEN -x ELSE x

Min(a, b) == IF a < b THEN a ELSE b

Dollars(n) == n * 100

Range(s) == {s[i] : i \in 1..Len(s)}

RECURSIVE SumSeq(_)
SumSeq(s) == IF s = <<>> THEN 0 ELSE Head(s) + SumSeq(Tail(s))

\* float('inf') of the income ranges: larger than every amount of the model
Inf == 2147483647

\* 'random_household' not in st.session_state / no household id
NoId == 0

(***************************************************************************)
(* The option tables of the six filters.                                   *)
(***************************************************************************)
weight_options == <<0, 1000, 5000, 10000, 25000, 50000>>

income_ranges == << <<0, Inf>>, <<0, Dollars(25000)>>,
                    <<Dollars(25000), Dollars(50000)>>,
                    <<Dollars(50000), Dollars(100000)>>,
                    <<Dollars(100000), Dollars(200000)>>,
                    <<Dollars(200000), Inf>> >>

marital_options == <<"All", "Married", "Single">>

dependent_options == <<"All", "0", "1", "2", "3+">>

\* int(selected_dependents)
ParseInt(s) == CASE s = "0" -> 0 [] s = "1" -> 1 [] s = "2" -> 2

age_ranges == << <<0, 200>>, <<0, 30>>, <<30, 40>>, <<40, 50>>, <<50, 60>>,
                 <<60, 70>>, <<70, 80>>, <<80, 200>> >>

\* ["All States"] + sorted(df['State'].unique().tolist()), as a set of options
StateOptions(d) == {"All States"} \cup {d[i].State : i \in 1..Len(d)}

(***************************************************************************)
(* Filter Engine: df_filtered after the six filters.                       *)
(***************************************************************************)
\* df_filtered[mask], a boolean-mask selection, keeps the matching rows in
\* their order: SelectSeq
FilterWeight(rows, sel) ==
    LET min_weight == weight_options[sel]
        Keep(r) == r.Weight >= min_weight
    IN IF min_weight > 0 THEN SelectSeq(rows, Keep) ELSE rows

FilterIncome(rows, sel) ==
    LET min_income == income_ranges[sel][1]
        max_income == income_ranges[sel][2]
        Keep(r) == r.NetIncome >= min_income /\ r.NetIncome <= max_income
    IN IF min_income > 0 \/ max_income < Inf THEN SelectSeq(rows, Keep) ELSE rows

FilterState(rows, selected_state) ==
    LET Keep(r) == r.State = selected_state
    IN IF selected_state # "All States" THEN SelectSeq(rows, Keep) ELSE rows

FilterMarital(rows, selected_marital) ==
    LET is_married == (selected_marital = "Married")
        Keep(r) == r.IsMarried = is_married
    IN IF selected_marital # "All" THEN SelectSeq(rows, Keep) ELSE rows

\* a positional slice df_filtered[n:] in place of the comparison on the column
FilterDependentsSliced(rows, selected_dependents) ==
    LET n == IF selected_dependents = "3+" THEN 3 ELSE ParseInt(selected_dependents)
    IN IF selected_dependents # "All"
       THEN SubSeq(rows, Min(n, Len(rows)) + 1, Len(rows))
       ELSE rows

FilterDependents(rows, selected_dependents) ==
    LET KeepGe(r) == r.Dependents >= 3
        KeepEq(r) == r.Dependents = ParseInt(selected_dependents)
    IN IF selected_dependents # "All"
       THEN IF selected_dependents = "3+" THEN SelectSeq(rows, KeepGe)
            ELSE SelectSeq(rows, KeepEq)
       ELSE rows

FilterAge(rows, sel) ==
    LET min_age == age_ranges[sel][1]
        max_age == age_ranges[sel][2]
        Keep(r) == r.AgeOfHead >= min_age /\ r.AgeOfHead < max_age
    IN IF sel # 1 THEN SelectSeq(rows, Keep) ELSE rows

\* the criteria are a record of the six selections
ApplyFilters(rows, c) ==
    FilterAge(
      FilterDependents(
        FilterMarital(
          FilterState(
            FilterIncome(
              FilterWeight(rows, c.weight), c.income), c.state), c.marital),
        c.dependents), c.age)

(***************************************************************************)
(* Household Selector.                                                     *)
(***************************************************************************)
selection_methods == <<"By Household ID", "Find Interesting Cases", "Random Shuffle">>

case_types == <<"Largest % Federal Tax Increase", "Largest % Federal Tax Decrease",
                "Largest Federal Tax Increase", "Largest Federal Tax Decrease",
                "Largest % Income Increase", "Largest % Income Decrease",
                "Largest Income Increase", "Largest Income Decrease">>

\* categories[case_type] = (method, column)
categories(case_type) ==
    CASE case_type = "Largest % Federal Tax Increase" ->
             <<"nlargest", "Percentage Change in Federal Tax Liability">>
      [] case_type = "Largest % Federal Tax Decrease" ->
             <<"nsmallest", "Percentage Change in Federal Tax Liability">>
      [] case_type = "Largest Federal Tax Increase" ->
             <<"nlargest", "Total Change in Federal Tax Liability">>
      [] case_type = "Largest Federal Tax Decrease" ->
             <<"nsmallest", "Total Change in Federal Tax Liability">>
      [] case_type = "Largest % Income Increase" ->
             <<"nlargest", "Percentage Change in Net Income">>
      [] case_type = "Largest % Income Decrease" ->
             <<"nsmallest", "Percentage Change in Net Income">>
      [] case_type = "Largest Income Increase" ->
             <<"nlargest", "Total Change in Net Income">>
      [] case_type = "Largest Income Decrease" ->
             <<"nsmallest", "Total Change in Net Income">>

\* row[column] for the four ranking columns
Col(r, column) ==
    CASE column = "Percentage Change in Federal Tax Liability" -> r.PctChangeFederal
      [] column = "Total Change in Federal Tax Liability" -> r.TotalChangeFederal
      [] column = "Percentage Change in Net Income" -> r.PctChangeNetIncome
      [] column = "Total Change in Net Income" -> r.TotalChangeNetIncome

\* the sort key of a row: the column for nlargest, its negation for nsmallest
SortKey(r, method, column) ==
    IF method = "nlargest" THEN Col(r, column) ELSE -Col(r, column)

\* an insertion that puts r behind the rows of an equal key as well
RECURSIVE InsertOrderedLast(_, _, _, _)
InsertOrderedLast(sorted, r, method, column) ==
    IF sorted = <<>> THEN <<r>>
    ELSE IF SortKey(Head(sorted), method, column) >= SortKey(r, method, column)
         THEN <<Head(sorted)>> \o InsertOrderedLast(Tail(sorted), r, method, column)
         ELSE <<r>> \o sorted

\* r placed behind the rows of a strictly greater key, in front of the others
RECURSIVE InsertOrdered(_, _, _, _)
InsertOrdered(sorted, r, method, column) ==
    IF sorted = <<>> THEN <<r>>
    ELSE IF SortKey(Head(sorted), method, column) > SortKey(r, method, column)
         THEN <<Head(sorted)>> \o InsertOrdered(Tail(sorted), r, method, column)
         ELSE <<r>> \o sorted

\* the rows ordered by the key, rows of equal key in their original order
RECURSIVE StableSort(_, _, _)
StableSort(rows, method, column) ==
    IF rows = <<>> THEN <<>>
    ELSE InsertOrdered(StableSort(Tail(rows), method, column), Head(rows), method, column)

\* the sequence s without its i-th element
RemoveAt(s, i) == SubSeq(s, 1, i - 1) \o SubSeq(s, i + 1, Len(s))

\* the orders of the elements of s
RECURSIVE Orderings(_)
Orderings(s) ==
    IF s = <<>> THEN {<<>>}
    ELSE UNION {{<<s[i]>> \o p : p \in Orderings(RemoveAt(s, i))} : i \in 1..Len(s)}

\* the orders of rows sorted by the key that differ only in the order of the
\* rows of an equal key
RECURSIVE TieOrders(_, _, _)
TieOrders(sorted, method, column) ==
    IF sorted = <<>> THEN {<<>>}
    ELSE LET m == Cardinality({k \in 1..Len(sorted) :
                     SortKey(sorted[k], method, column) = SortKey(sorted[1], method, column)})
         IN {p \o q : p \in Orderings(SubSeq(sorted, 1, m)),
                      q \in TieOrders(SubSeq(sorted, m + 1, Len(sorted)), method, column)}

\* Series.sort_values(ascending = (method = 'nsmallest')) with the default
\* sort kind, which is not stable: the rows ordered by the key, the rows of
\* an equal key in any order
SortValues(rows, method, column) == TieOrders(StableSort(rows, method, column), method, column)

\* DataFrame.nlargest / nsmallest (keep='first'), every frame the call may
\* return.  With n below the number of rows the library selects the n
\* extreme rows in the order of the column, rows of equal value in their
\* original order; otherwise it returns sort_values(...).head(n)
SelectN(rows, n, method, column) ==
    IF n >= Len(rows) THEN SortValues(rows, method, column)
    ELSE {SubSeq(StableSort(rows, method, column), 1, n)}

\* round(num / den) to the nearest integer, ties to even, for num >= 0
RoundHalfEven(num, den) ==
    LET q == num \div den
        r == num % den
    IN IF 2 * r < den THEN q
       ELSE IF 2 * r > den THEN q + 1
       ELSE IF q % 2 = 0 THEN q ELSE q + 1

\* f"{value:+.1f}%": sign and tenths of a percent (value in sixteenths of a percent)
FormatPct(value) ==
    [sign |-> IF value < 0 THEN "-" ELSE "+",
     digits |-> RoundHalfEven(10 * Abs(value), 16), unit |-> "%"]

\* f"${value:+,.0f}": sign and whole dollars (value in cents)
FormatDollars(value) ==
    [sign |-> IF value < 0 THEN "-" ELSE "+",
     digits |-> RoundHalfEven(Abs(value), 100), unit |-> "$"]

\* "%" in case_type
IsPctCase(case_type) ==
    case_type \in {"Largest % Federal Tax Increase", "Largest % Federal Tax Decrease",
                   "Largest % Income Increase", "Largest % Income Decrease"}

\* "Tax" in case_type
IsTaxCase(case_type) ==
    case_type \in {"Largest % Federal Tax Increase", "Largest % Federal Tax Decrease",
                   "Largest Federal Tax Increase", "Largest Federal Tax Decrease"}

\* the option text of the entry without its rank
OptionValue(row, case_type) ==
    IF IsPctCase(case_type)
    THEN IF IsTaxCase(case_type) THEN FormatPct(row.PctChangeFederal)
         ELSE FormatPct(row.PctChangeNetIncome)
    ELSE IF IsTaxCase(case_type) THEN FormatDollars(row.TotalChangeFederal)
         ELSE FormatDollars(row.TotalChangeNetIncome)

\* f"#{i}: ..." of the i-th row of top_households
RankedOption(i, row, case_type) ==
    [rank |-> i, value |-> OptionValue(row, case_type)]

\* list.index(x): the first position holding x
IndexOf(s, x) == CHOOSE i \in 1..Len(s) : s[i] = x /\ \A j \in 1..(i - 1) : s[j] # x

\* df_filtered['Household ID'] as a sequence
HouseholdIDs(rows) == [i \in 1..Len(rows) |-> rows[i].HouseholdID]

(***************************************************************************)
(* Double-precision arithmetic.  The amounts of a record are Python        *)
(* floats: the double nearest to the decimal amount.  A double of the      *)
(* model is a sign and a magnitude counted in units of 2^-59 (0.01, the    *)
(* smallest non-zero amount, has its last mantissa bit at 2^-59), and the  *)
(* magnitude is a natural number written in limbs of 15 bits, least        *)
(* significant first, <<>> being zero.                                     *)
(***************************************************************************)
LimbBits == 15

LimbBase == 2 ^ LimbBits

FracBits == 59

GuardBits == 8

MantBits == 53

Pow2(n) == 2 ^ n

RECURSIVE Strip(_)
Strip(s) ==
    IF s = <<>> THEN <<>>
    ELSE IF s[Len(s)] = 0 THEN Strip(SubSeq(s, 1, Len(s) - 1)) ELSE s

\* the limbs of a natural number below 2^31
ToLimbs(a) == Strip(<<a % LimbBase, (a \div LimbBase) % LimbBase,
                      a \div (LimbBase * LimbBase)>>)

\* s * m + carry for m, carry below 2^15
RECURSIVE MulSmall(_, _, _)
MulSmall(s, m, carry) ==
    IF s = <<>> THEN (IF carry = 0 THEN <<>> ELSE <<carry>>)
    ELSE LET t == Head(s) * m + carry
         IN <<t % LimbBase>> \o MulSmall(Tail(s), m, t \div LimbBase)

\* quotient and remainder of (r * 2^(15 * Len(s)) + s) by d, for r < d <= 2^15
RECURSIVE DivSmall(_, _, _)
DivSmall(s, d, r) ==
    IF s = <<>> THEN [q |-> <<>>, r |-> r]
    ELSE LET cur == r * LimbBase + s[Len(s)]
             lower == DivSmall(SubSeq(s, 1, Len(s) - 1), d, cur % d)
         IN [q |-> Append(lower.q, cur \div d), r |-> lower.r]

Shl(s, n) ==
    IF s = <<>> THEN <<>>
    ELSE [i \in 1..(n \div LimbBits) |-> 0] \o MulSmall(s, Pow2(n % LimbBits), 0)

Shr(s, n) ==
    Strip(DivSmall(SubSeq(s, (n \div LimbBits) + 1, Len(s)), Pow2(n % LimbBits), 0).q)

\* the number of bits of the limbs 1, 2, ..., computed once
LimbBitLen ==
    SubSeq([x \in 1..(LimbBase - 1) |->
               CHOOSE b \in 1..LimbBits : Pow2(b - 1) <= x /\ x < Pow2(b)],
           1, LimbBase - 1)

BitLen(s) ==
    IF s = <<>> THEN 0 ELSE LimbBits * (Len(s) - 1) + LimbBitLen[s[Len(s)]]

\* -1, 0, 1 as a is below, equal to, above b
RECURSIVE CmpFrom(_, _, _)
CmpFrom(a, b, i) ==
    IF i = 0 THEN 0
    ELSE IF a[i] # b[i] THEN (IF a[i] < b[i] THEN -1 ELSE 1)
    ELSE CmpFrom(a, b, i - 1)

CmpMag(a, b) ==
    IF Len(a) # Len(b) THEN (IF Len(a) < Len(b) THEN -1 ELSE 1)
    ELSE CmpFrom(a, b, Len(a))

RECURSIVE AddMag(_, _, _)
AddMag(a, b, carry) ==
    IF a = <<>> /\ b = <<>> THEN (IF carry = 0 THEN <<>> ELSE <<carry>>)
    ELSE LET x == IF a = <<>> THEN 0 ELSE Head(a)
             y == IF b = <<>> THEN 0 ELSE Head(b)
             t == x + y + carry
         IN <<t % LimbBase>>
            \o AddMag(IF a = <<>> THEN <<>> ELSE Tail(a),
                      IF b = <<>> THEN <<>> ELSE Tail(b), t \div LimbBase)

\* a - b - borrow for a >= b + borrow, limbs not stripped
RECURSIVE SubLimbs(_, _, _)
SubLimbs(a, b, borrow) ==
    IF a = <<>> THEN <<>>
    ELSE LET y == IF b = <<>> THEN 0 ELSE Head(b)
             t == Head(a) - y - borrow
         IN <<IF t < 0 THEN t + LimbBase ELSE t>>
            \o SubLimbs(Tail(a), IF b = <<>> THEN <<>> ELSE Tail(b),
                        IF t < 0 THEN 1 ELSE 0)

SubMag(a, b) == Strip(SubLimbs(a, b, 0))

\* bit n (from 0) of the magnitude m
BitAt(m, n) == (m[(n \div LimbBits) + 1] \div Pow2(n % LimbBits)) % 2

\* whether a bit below bit n of the magnitude m is set
AnyBelow(m, n) ==
    \/ m[(n \div LimbBits) + 1] % Pow2(n % LimbBits) # 0
    \/ \E i \in 1..(n \div LimbBits) : m[i] # 0

\* the magnitude m with its bits below bit n cleared
ClearBelow(m, n) ==
    [i \in 1..Len(m) |->
        IF i <= n \div LimbBits THEN 0
        ELSE IF i = (n \div LimbBits) + 1 THEN m[i] - (m[i] % Pow2(n % LimbBits))
        ELSE m[i]]

\* 2^n as a magnitude
PowMag(n) == [i \in 1..((n \div LimbBits) + 1) |->
                 IF i = (n \div LimbBits) + 1 THEN Pow2(n % LimbBits) ELSE 0]

\* the magnitude m (plus a fraction below one unit when sticky) rounded to 53
\* significant bits, ties to even
RoundMant(m, sticky) ==
    LET s == BitLen(m) - MantBits
    IN IF s <= 0 THEN m
       ELSE LET up == /\ BitAt(m, s - 1) = 1
                      /\ \/ AnyBelow(m, s - 1)
                         \/ sticky
                         \/ BitAt(m, s) = 1
            IN IF up THEN AddMag(ClearBelow(m, s), PowMag(s), 0)
               ELSE ClearBelow(m, s)

\* the double nearest to cents / 100
NearestDouble(cents) ==
    IF cents = 0 THEN [neg |-> FALSE, mag |-> <<>>]
    ELSE LET d == DivSmall(Shl(ToLimbs(Abs(cents)), FracBits + GuardBits), 100, 0)
         IN [neg |-> cents < 0,
             mag |-> Shr(RoundMant(Strip(d.q), d.r > 0), GuardBits)]

\* the doubles of the small amounts, computed once
TableCents == 50000

DoubleTable == SubSeq([c \in 1..TableCents |-> NearestDouble(c).mag], 1, TableCents)

\* the amount of a record as the float the program reads
FromCents(cents) ==
    IF cents # 0 /\ Abs(cents) <= TableCents
    THEN [neg |-> cents < 0, mag |-> DoubleTable[Abs(cents)]]
    ELSE NearestDouble(cents)

FNeg(x) == IF x.mag = <<>> THEN x ELSE [x EXCEPT !.neg = ~x.neg]

FAbs(x) == [x EXCEPT !.neg = FALSE]

\* x + y in double precision
FAdd(x, y) ==
    IF x.mag = <<>> THEN y
    ELSE IF y.mag = <<>> THEN x
    ELSE IF x.neg = y.neg
    THEN [neg |-> x.neg, mag |-> RoundMant(AddMag(x.mag, y.mag, 0), FALSE)]
    ELSE LET c == CmpMag(x.mag, y.mag)
         IN IF c = 0 THEN [neg |-> FALSE, mag |-> <<>>]
            ELSE IF c = 1 THEN [neg |-> x.neg, mag |-> RoundMant(SubMag(x.mag, y.mag), FALSE)]
            ELSE [neg |-> y.neg, mag |-> RoundMant(SubMag(y.mag, x.mag), FALSE)]

FSub(x, y) == FAdd(x, FNeg(y))

\* the double of a whole number of currency units
FromUnits(n) == [neg |-> n < 0, mag |-> Shl(ToLimbs(Abs(n)), FracBits)]

FZero == FromUnits(0)

\* x < y for doubles
FLess(x, y) ==
    IF x.neg # y.neg THEN x.neg
    ELSE IF x.neg THEN CmpMag(x.mag, y.mag) = 1
    ELSE CmpMag(x.mag, y.mag) = -1

\* sum(list of floats): left to right from 0, each addition rounded
RECURSIVE FSum(_, _)
FSum(acc, s) == IF s = <<>> THEN acc ELSE FSum(FAdd(acc, Head(s)), Tail(s))

(***************************************************************************)
(* Reform Attribution Calculator and Consistency Verifier.                 *)
(***************************************************************************)
\* display names of reform_configs, in catalog order; the k-th net-income
\* delta of a row is its "Net income change after <col_name>" column
reform_configs == <<"Tax Rate Reform", "Standard Deduction Reform", "Exemption Reform",
                    "Child Tax Credit Reform", "QBID Reform", "AMT Reform",
                    "SALT Reform", "Tip Income Exemption", "Overtime Income Exemption",
                    "Auto Loan Interest Deduction", "Miscellaneous Reform",
                    "Other Itemized Deductions Reform", "Pease Reform">>

NumComponents == Len(reform_configs)

\* 0.01 currency units, in cents
ActiveThreshold == 1

\* 3 currency units, in cents
Tolerance == 3

\* reform_components: (display_name, income_change) per catalog entry
\* (combined_tax is computed by the code and never read)
ReformComponents(household) ==
    [k \in 1..NumComponents |->
        [name |-> reform_configs[k], income_change |-> household.IncomeChangeAfter[k]]]

\* a filter on the sign-carrying delta in place of its magnitude
IsActiveSigned(c) == c.income_change > ActiveThreshold

\* abs(income_change) > 0.01
IsActive(c) == Abs(c.income_change) > ActiveThreshold

ActiveComponents(household) == SelectSeq(ReformComponents(household), IsActive)

\* total_tax_change of the impact summary
TotalTaxChange(household, show_federal, show_state) ==
    LET federal_tax_change == IF show_federal THEN household.TotalChangeFederal ELSE 0
        state_tax_change == IF show_state THEN household.TotalChangeState ELSE 0
    IN federal_tax_change + state_tax_change

\* household.get('Baseline State Tax Liability', 0): the input table has no
\* such column, so the default is returned
GetBaselineStateTaxLiability(household) == 0

BaselineTotal(household, show_federal, show_state) ==
    LET baseline_federal == IF show_federal THEN household.BaselineFederalTax ELSE 0
        baseline_state == IF show_state THEN GetBaselineStateTaxLiability(household) ELSE 0
    IN baseline_federal + baseline_state

\* the relative steps: tax_change = -income_change, running_total accumulated
RECURSIVE RelativeSteps(_, _)
RelativeSteps(active, running_total) ==
    IF active = <<>> THEN <<>>
    ELSE LET tax_change == -Head(active).income_change
         IN <<[measure |-> "relative", x |-> Head(active).name, y |-> tax_change,
               running |-> running_total + tax_change]>>
            \o RelativeSteps(Tail(active), running_total + tax_change)

\* waterfall_data with one measure per entry
WaterfallData(household, active, show_federal, show_state) ==
    LET baseline_total == BaselineTotal(household, show_federal, show_state)
        final_total == baseline_total + TotalTaxChange(household, show_federal, show_state)
    IN <<[measure |-> "absolute", x |-> "Baseline", y |-> baseline_total,
          running |-> baseline_total]>>
       \o RelativeSteps(active, baseline_total)
       \o <<[measure |-> "total", x |-> "Final", y |-> final_total,
             running |-> final_total]>>

\* sum([item[1] for item in waterfall_data[1:-1]]): the double-precision sum,
\* taken left to right, of the relative steps' tax changes
TotalCalculatedChange(waterfall_data) ==
    FSum(FZero,
         [k \in 1..(Len(waterfall_data) - 2) |-> FromCents(waterfall_data[k + 1].y)])

\* -household['Total Change in Net Income']
ActualChange(household) == FNeg(FromCents(household.TotalChangeNetIncome))

\* the literal 3 of the comparison as a double
ToleranceDouble == FromUnits(Tolerance)

\* a tolerance that includes its bound
WithinToleranceInclusive(total_calculated_change, actual_change) ==
    ~FLess(ToleranceDouble, FAbs(FSub(total_calculated_change, actual_change)))

\* abs(total_calculated_change - actual_change) < 3, on doubles
WithinTolerance(total_calculated_change, actual_change) ==
    FLess(FAbs(FSub(total_calculated_change, actual_change)), ToleranceDouble)

\* max(active_components, key=lambda x: abs(x[2])): the first maximum
BiggestImpactReform(active) ==
    LET i == CHOOSE i \in 1..Len(active) :
                \A j \in 1..Len(active) :
                    /\ Abs(active[j].income_change) <= Abs(active[i].income_change)
                    /\ j < i => Abs(active[j].income_change) < Abs(active[i].income_change)
    IN active[i].name

ImpactLevel(income_change) ==
    IF Abs(income_change) > Dollars(1000) THEN "significantly"
    ELSE IF Abs(income_change) > Dollars(100) THEN "moderately"
    ELSE "minimally"

Direction(income_change) ==
    IF income_change > 0 THEN "benefits from" ELSE "is burdened by"

(***************************************************************************)
(* One render pass of main().                                              *)
(***************************************************************************)
\* the outputs of a pass that has computed nothing yet
Blank ==
    [status |-> "start", df_filtered |-> <<>>, selected |-> FALSE,
     sampled |-> FALSE, picked |-> 0, household_id |-> NoId, household_ids |-> <<>>, ranked_options |-> <<>>,
     found |-> FALSE, summary |-> FALSE, total_tax_change |-> 0,
     components |-> FALSE, active_components |-> <<>>,
     waterfall_data |-> <<>>, baseline_total |-> 0, final_total |-> 0,
     verified |-> FALSE, discrepancy |-> FALSE,
     story |-> FALSE, impact_level |-> "", direction |-> "", biggest_reform_name |-> ""]

\* top_households of the Find Interesting Cases branch: the frames the call
\* may return
TopHouseholds(df_filtered, case_type) ==
    SelectN(df_filtered, 20, categories(case_type)[1], categories(case_type)[2])

\* ranked_options of the Find Interesting Cases branch
RankedOptions(top_households, case_type) ==
    [k \in 1..Len(top_households) |-> RankedOption(k, top_households[k], case_type)]

\* a Random Shuffle branch that draws on every pass
RandomShuffleAlwaysDraws(ss, button, draw) == draw

\* the Random Shuffle branch: the key after the pass, draw being the sampled id
RandomShuffle(ss, button, draw) ==
    IF button THEN draw
    ELSE IF ss = NoId THEN draw
    ELSE ss

\* TRUE when the Random Shuffle branch samples df_filtered in this pass
Samples(i, ss) ==
    i.selection_method = "Random Shuffle" /\ (i.button \/ ss = NoId)

\* the selection: household_id, the key after the pass, and the ranked list
Selection(df_filtered, top_households, i, ss, draw, pick) ==
    IF i.selection_method = "By Household ID"
    THEN [household_id |-> HouseholdIDs(df_filtered)[pick], random_household |-> ss,
          household_ids |-> <<>>, ranked_options |-> <<>>]
    ELSE IF i.selection_method = "Random Shuffle"
    THEN [household_id |-> RandomShuffle(ss, i.button, draw),
          random_household |-> RandomShuffle(ss, i.button, draw),
          household_ids |-> <<>>, ranked_options |-> <<>>]
    ELSE LET household_ids == HouseholdIDs(top_households)
             ranked_options == RankedOptions(top_households, i.case_type)
             selected_option == ranked_options[pick]
             selected_index == IndexOf(ranked_options, selected_option)
         IN [household_id |-> household_ids[selected_index], random_household |-> ss,
             household_ids |-> household_ids, ranked_options |-> ranked_options]

\* the part of the pass after the tax-type check, for the household found
Attribution(household, show_federal, show_state, o) ==
    LET total_tax_change == TotalTaxChange(household, show_federal, show_state)
        reform_components == ReformComponents(household)
        active_components == ActiveComponents(household)
        waterfall_data == WaterfallData(household, active_components,
                                        show_federal, show_state)
        baseline_total == BaselineTotal(household, show_federal, show_state)
        total_calculated_change == TotalCalculatedChange(waterfall_data)
        actual_change == ActualChange(household)
        \* income_change is rebound by the loop over reform_configs and again
        \* by the loop over active_components
        income_change == IF active_components # <<>>
                         THEN active_components[Len(active_components)].income_change
                         ELSE reform_components[NumComponents].income_change
        o1 == [o EXCEPT !.summary = TRUE, !.total_tax_change = total_tax_change,
                        !.components = TRUE, !.active_components = active_components,
                        !.story = TRUE, !.status = "done",
                        !.impact_level = ImpactLevel(income_change),
                        !.direction = Direction(income_change)]
    IN IF active_components # <<>>
       THEN [o1 EXCEPT !.waterfall_data = waterfall_data,
                       !.baseline_total = baseline_total,
                       !.final_total = baseline_total + total_tax_change,
                       !.verified = TRUE,
                       !.discrepancy = ~WithinTolerance(total_calculated_change,
                                                        actual_change),
                       !.biggest_reform_name = BiggestImpactReform(active_components)]
       ELSE o1

\* a halt that also fires when a single household is left
NoMatchOffByOne(df_filtered) == Len(df_filtered) <= 1

\* if len(df_filtered) == 0: st.error(...); st.stop()
NoMatch(df_filtered) == Len(df_filtered) = 0

\* a check that also fires when exactly one of the two types is selected
NoTaxTypeEither(show_federal, show_state) == ~show_federal \/ ~show_state

\* if not show_federal and not show_state: st.sidebar.error(...); st.stop()
NoTaxType(show_federal, show_state) == ~show_federal /\ ~show_state

\* the pass from the filter result on: the outputs and the persisted key
\* after it (top_households is read by the Find Interesting Cases branch only)
Pass(df_filtered, top_households, i, ss, draw, pick) ==
    LET o0 == [Blank EXCEPT !.df_filtered = df_filtered]
    IN IF NoMatch(df_filtered)
       THEN [out |-> [o0 EXCEPT !.status = "no households match"],
             random_household |-> ss]
       ELSE
       LET sel == Selection(df_filtered, top_households, i, ss, draw, pick)
           o1 == [o0 EXCEPT !.selected = TRUE, !.household_id = sel.household_id,
                            !.sampled = Samples(i, ss),
                            !.picked = IF i.selection_method = "Random Shuffle"
                                       THEN 0 ELSE pick,
                            !.household_ids = sel.household_ids,
                            !.ranked_options = sel.ranked_options]
           HasId(r) == r.HouseholdID = sel.household_id
           matching == SelectSeq(df_filtered, HasId)
       IN IF matching = <<>>
          THEN [out |-> [o1 EXCEPT !.status = "IndexError"],
                random_household |-> sel.random_household]
          ELSE IF NoTaxType(i.show_federal, i.show_state)
          THEN [out |-> [o1 EXCEPT !.found = TRUE, !.status = "no tax type"],
                random_household |-> sel.random_household]
          ELSE [out |-> Attribution(matching[1], i.show_federal, i.show_state,
                                    [o1 EXCEPT !.found = TRUE]),
                random_household |-> sel.random_household]

\* what the pass may sample and what the user may pick in its select box
DrawSet(df_filtered, i, ss) ==
    IF Samples(i, ss) THEN Range(HouseholdIDs(df_filtered)) ELSE {NoId}

PickSet(df_filtered, i) ==
    IF i.selection_method = "By Household ID" THEN 1..Len(df_filtered)
    ELSE IF i.selection_method = "Find Interesting Cases" THEN 1..Min(20, Len(df_filtered))
    ELSE {1}

\* the frames line 165 may bind top_households to; the other branches do not
\* bind it
TopSet(df_filtered, i) ==
    IF i.selection_method = "Find Interesting Cases"
    THEN TopHouseholds(df_filtered, i.case_type)
    ELSE {<<>>}

RenderPass(i) ==
    LET df_filtered == ApplyFilters(df, i)
    IN /\ inp' = i
       /\ UNCHANGED df
       /\ IF NoMatch(df_filtered)
          THEN LET res == Pass(df_filtered, <<>>, i, random_household, NoId, 1)
               IN out' = res.out /\ random_household' = res.random_household
          ELSE \E top_households \in TopSet(df_filtered, i) :
               \E draw \in DrawSet(df_filtered, i, random_household),
                  pick \in PickSet(df_filtered, i) :
                  LET res == Pass(df_filtered, top_households, i, random_household, draw, pick)
                  IN out' = res.out /\ random_household' = res.random_household

(***************************************************************************)
(* Record stores the passes run on.                                        *)
(***************************************************************************)
DefaultDemo ==
    [Weight |-> 2000, NetIncome |-> Dollars(60000), State |-> "CA",
     IsMarried |-> TRUE, Dependents |-> 1, AgeOfHead |-> 45]

\* SALT Reform alone, net-income delta -$500
DefaultDeltas == [k \in 1..NumComponents |-> IF k = 7 THEN Dollars(-500) ELSE 0]

DefaultFin ==
    [BaselineFederalTax |-> Dollars(10000), StateIncomeTax |-> Dollars(800),
     TotalChangeFederal |-> Dollars(500), TotalChangeState |-> 0,
     TotalChangeNetIncome |-> Dollars(-500),
     PctChangeFederal |-> 80, PctChangeNetIncome |-> -13,
     IncomeChangeAfter |-> DefaultDeltas]

Row(id, demo, fin) == [HouseholdID |-> id] @@ demo @@ fin

\* sequences of length 1..n over S
SeqsUpTo(S, n) == UNION {[1..m -> S] : m \in 1..n}

\* stores of the selection specification: weight and state vary
SelProfiles ==
    {[DefaultDemo EXCEPT !.Weight = w, !.State = s] : w \in {500, 2000}, s \in {"CA", "NY"}}

SelStores ==
    {[k \in 1..Len(p) |-> Row(k, p[k], DefaultFin)] : p \in SeqsUpTo(SelProfiles, MaxRows)}

\* stores of the filter specification: rows on the edges of the filter buckets
FilterProfiles ==
    {[Weight |-> 1000, NetIncome |-> Dollars(25000), State |-> "CA",
      IsMarried |-> TRUE, Dependents |-> 0, AgeOfHead |-> 30],
     [Weight |-> 999, NetIncome |-> Dollars(200000), State |-> "NY",
      IsMarried |-> FALSE, Dependents |-> 3, AgeOfHead |-> 29],
     [Weight |-> 50000, NetIncome |-> Dollars(50000) + 1, State |-> "CA",
      IsMarried |-> FALSE, Dependents |-> 2, AgeOfHead |-> 80]}

\* sequences of distinct elements
Distinct(q) == \A a, b \in 1..Len(q) : a # b => q[a] # q[b]

FilterStores ==
    {[k \in 1..Len(p) |-> Row(k, p[k], DefaultFin)] :
        p \in {q \in SeqsUpTo(FilterProfiles, MaxFilterRows) : Distinct(q)}}

\* stores of the attribution specification: one household whose amounts vary
DeltaVals == {-12995, -435, -1, 2}

\* the catalog positions whose delta varies: both ends and the middle
DeltaPositions == {1, 2, 7, 12, NumComponents}

DeltaVectors ==
    UNION {{[k \in 1..NumComponents |-> IF k \in S THEN f[k] ELSE 0] : f \in [S -> DeltaVals]} :
           S \in {T \in SUBSET DeltaPositions : Cardinality(T) <= MaxNonZero}}

\* Total Change in Net Income minus the sum of the component deltas
DiscrepancyVals == {-301, 0, 299, 300, 301}

\* (baseline federal tax, state income tax, federal change, state change)
TaxProfiles ==
    {<<Dollars(10000), Dollars(800), Dollars(500), 0>>,
     <<Dollars(10000), 0, Dollars(-400), Dollars(-100)>>,
     <<0, Dollars(800), 0, Dollars(30)>>}

WaterfallStores ==
    {<<Row(1, DefaultDemo,
           [DefaultFin EXCEPT !.BaselineFederalTax = t[1], !.StateIncomeTax = t[2],
                              !.TotalChangeFederal = t[3], !.TotalChangeState = t[4],
                              !.TotalChangeNetIncome = SumSeq(v) + e,
                              !.IncomeChangeAfter = v])>> :
        v \in DeltaVectors, e \in DiscrepancyVals, t \in TaxProfiles}

\* stores of the ranking specification: n rows whose four ranking columns
\* take distinct values, except that row 4 repeats the values of row 1; the
\* formats of neighbouring values collide; row 3 lives in another state
RankSeeds == 1..2

\* the row whose ranking values row k takes
RankTwin(k) == IF k = 4 THEN 1 ELSE k

RankRow(k, seed) ==
    Row(k, [DefaultDemo EXCEPT !.State = IF k = 3 THEN "NY" ELSE "CA"],
        [DefaultFin EXCEPT
            !.PctChangeFederal = ((RankTwin(k) * 5 + seed - 6) % 29) - 14,
            !.TotalChangeFederal = (((RankTwin(k) * 7 + seed) % 29) - 14) * 50,
            !.PctChangeNetIncome = ((RankTwin(k) * 11 + 2 * seed) % 29) - 14,
            !.TotalChangeNetIncome = (((RankTwin(k) * 3 + seed) % 29) - 14) * 3000])

RankSizes == {4, MaxRankRows - 1, MaxRankRows}

RankStores ==
    {[k \in 1..n |-> RankRow(k, seed)] : n \in RankSizes, seed \in RankSeeds}

(***************************************************************************)
(* Initial states.                                                         *)
(***************************************************************************)
DefaultInp ==
    [weight |-> 1, income |-> 1, state |-> "All States", marital |-> "All",
     dependents |-> "All", age |-> 1,
     selection_method |-> "By Household ID", button |-> FALSE,
     case_type |-> case_types[1], show_federal |-> TRUE, show_state |-> FALSE]

InitOn(stores) ==
    /\ df \in stores
    /\ inp = DefaultInp
    /\ random_household = NoId
    /\ out = Blank

Init == InitOn(SelStores)

InitFilter == InitOn(FilterStores)

InitWaterfall == InitOn(WaterfallStores)

\* the ranking specification starts with Find Interesting Cases chosen
InitRank ==
    /\ df \in RankStores
    /\ inp = [DefaultInp EXCEPT !.selection_method = "Find Interesting Cases"]
    /\ random_household = NoId
    /\ out = Blank

(***************************************************************************)
(* User interactions: each one changes a widget and triggers a full pass.  *)
(* The re-draw button reads TRUE only in the pass its press triggers.      *)
(***************************************************************************)
Rerun == RenderPass([inp EXCEPT !.button = FALSE])

SetWeight == \E sel \in 1..Len(weight_options) :
    sel # inp.weight /\ RenderPass([inp EXCEPT !.weight = sel, !.button = FALSE])

SetIncome == \E sel \in 1..Len(income_ranges) :
    sel # inp.income /\ RenderPass([inp EXCEPT !.income = sel, !.button = FALSE])

SetState == \E s \in StateOptions(df) :
    s # inp.state /\ RenderPass([inp EXCEPT !.state = s, !.button = FALSE])

SetMarital == \E s \in Range(marital_options) :
    s # inp.marital /\ RenderPass([inp EXCEPT !.marital = s, !.button = FALSE])

SetDependents == \E s \in Range(dependent_options) :
    s # inp.dependents /\ RenderPass([inp EXCEPT !.dependents = s, !.button = FALSE])

SetAge == \E sel \in 1..Len(age_ranges) :
    sel # inp.age /\ RenderPass([inp EXCEPT !.age = sel, !.button = FALSE])

\* the radio is drawn by every pass that gets past the filters
SetMethod == \E m \in Range(selection_methods) :
    /\ out.selected
    /\ m # inp.selection_method
    /\ RenderPass([inp EXCEPT !.selection_method = m, !.button = FALSE])

\* the button is drawn by a Random Shuffle pass
PressRedraw ==
    /\ out.selected
    /\ inp.selection_method = "Random Shuffle"
    /\ RenderPass([inp EXCEPT !.button = TRUE])

\* the case-type select box is drawn by a Find Interesting Cases pass
SetCaseType == \E c \in Range(case_types) :
    /\ out.selected
    /\ inp.selection_method = "Find Interesting Cases"
    /\ c # inp.case_type
    /\ RenderPass([inp EXCEPT !.case_type = c, !.button = FALSE])

\* the check boxes are drawn by every pass that found its household
ToggleFederal ==
    /\ out.found
    /\ RenderPass([inp EXCEPT !.show_federal = ~inp.show_federal, !.button = FALSE])

ToggleState ==
    /\ out.found
    /\ RenderPass([inp EXCEPT !.show_state = ~inp.show_state, !.button = FALSE])

(***************************************************************************)
(* Specifications.                                                         *)
(***************************************************************************)
\* selection: filters on weight and state, the three modes, the re-draw button
Next == Rerun \/ SetWeight \/ SetState \/ SetMethod \/ PressRedraw

Spec == Init /\ [][Next]_vars

\* filters: all six criteria
NextFilter == Rerun \/ SetWeight \/ SetIncome \/ SetState \/ SetMarital
                 \/ SetDependents \/ SetAge

SpecFilter == InitFilter /\ [][NextFilter]_vars

\* attribution: one household, the two tax-type check boxes
NextWaterfall == Rerun \/ ToggleFederal \/ ToggleState

SpecWaterfall == InitWaterfall /\ [][NextWaterfall]_vars

\* ranking: the eight case types on the households of a state
NextRank == Rerun \/ SetCaseType \/ SetState

SpecRank == InitRank /\ [][NextRank]_vars

(***************************************************************************)
(* Properties.                                                             *)
(***************************************************************************)
\* the ids of the filtered set of the pass
FilteredIDs(o) == Range(HouseholdIDs(o.df_filtered))

\* the pass has run the Random Shuffle branch
RandomPass(i, o) == i.selection_method = "Random Shuffle" /\ o.selected

\* C1: in Random Shuffle mode the household id used by the pass is the id of
\* a record of that pass's filtered set, so the lookup finds a row
C1_RandomIdInFilteredSet ==
    RandomPass(inp, out) =>
        /\ out.household_id \in FilteredIDs(out)
        /\ out.found

\* C2: a Random Shuffle pass without the re-draw button that follows a Random
\* Shuffle pass over the same filtered set selects the same household id; a
\* pass with the button pressed selects an id drawn from its filtered set
C2_StableUntilRedraw ==
    [][/\ (RandomPass(inp, out) /\ RandomPass(inp', out')
             /\ out'.df_filtered = out.df_filtered /\ ~inp'.button)
          => out'.household_id = out.household_id
       /\ (RandomPass(inp', out') /\ inp'.button)
          => /\ out'.household_id \in FilteredIDs(out')
             /\ out'.sampled]_vars

\* a Random Shuffle pass over two or more households that reused the key an
\* earlier pass had drawn
C2_Witness ==
    /\ RandomPass(inp, out)
    /\ ~inp.button
    /\ ~out.sampled
    /\ Len(out.df_filtered) >= 2
    /\ out.household_id = random_household
    /\ out.status = "done"

\* the record of the household the pass has found
Household == df[CHOOSE k \in 1..Len(df) : df[k].HouseholdID = out.household_id]

\* the catalog positions whose net-income delta exceeds 0.01 in magnitude
ActivePositions(h) == {k \in 1..NumComponents : Abs(h.IncomeChangeAfter[k]) > 1}

\* the sum of the net-income deltas of the active components of h
RECURSIVE SumOver(_, _)
SumOver(h, positions) ==
    IF positions = {} THEN 0
    ELSE LET k == CHOOSE k \in positions : TRUE
         IN h.IncomeChangeAfter[k] + SumOver(h, positions \ {k})

\* the sum of the relative step deltas of the waterfall of the pass
RelativeDeltaSum(o) ==
    SumSeq([j \in 1..(Len(o.waterfall_data) - 2) |-> o.waterfall_data[j + 1].y])

\* C3: the relative step deltas of the waterfall sum to final_total minus
\* baseline_total, final_total being baseline_total plus the federal total
\* change if shown plus the state total change if shown
C3_DeltasSumToFinalMinusBaseline ==
    out.waterfall_data # <<>> =>
        /\ out.final_total = out.baseline_total
              + (IF inp.show_federal THEN Household.TotalChangeFederal ELSE 0)
              + (IF inp.show_state THEN Household.TotalChangeState ELSE 0)
        /\ RelativeDeltaSum(out) = out.final_total - out.baseline_total

\* the double-precision sum, in catalog order, of the tax changes (negated
\* net-income deltas) of the components of h at the given positions
RECURSIVE FSumOver(_, _, _)
FSumOver(h, positions, acc) ==
    IF positions = {} THEN acc
    ELSE LET k == CHOOSE k \in positions : \A j \in positions : k <= j
         IN FSumOver(h, positions \ {k},
                     FAdd(acc, FNeg(FromCents(h.IncomeChangeAfter[k]))))

\* 3.0
Three == FromUnits(3)

\* |calculated - actual| of the found household as the doubles compute it
ComputedDifference ==
    FAbs(FSub(FSumOver(Household, ActivePositions(Household), FZero),
              FNeg(FromCents(Household.TotalChangeNetIncome))))

\* |calculated - actual| of the found household in exact decimal arithmetic,
\* in cents
DecimalDifference ==
    Abs(Household.TotalChangeNetIncome
          - SumOver(Household, ActivePositions(Household)))

\* C4: the consistency check passes exactly when the sum of the relative step
\* deltas and the negated total net-income change differ by less than 3 (0 and
\* 2.99 pass, 3 and 3.01 are reported), the difference being that of the
\* amounts of the record, and a reported discrepancy does not stop the pass
C4_ToleranceAndNonFatal ==
    out.verified =>
        /\ -SumOver(Household, ActivePositions(Household)) = RelativeDeltaSum(out)
        /\ out.discrepancy <=> DecimalDifference >= 300
        /\ DecimalDifference \in {0, 299} => ~out.discrepancy
        /\ DecimalDifference \in {300, 301} => out.discrepancy
        /\ out.status = "done" /\ out.story /\ out.waterfall_data # <<>>

\* C4: the consistency check passes exactly when the double-precision value of
\* |calculated - actual| is below 3, calculated being the left-to-right
\* double-precision sum of the relative step deltas and actual the negated
\* total net-income change; for amounts given to the cent a difference of at
\* most 2.99 passes, one of at least 3.01 is reported, and one of exactly 3.00
\* is reported unless the doubles compute a difference below 3; a reported
\* discrepancy does not stop the pass
C4_ToleranceInDoublePrecision ==
    out.verified =>
        /\ -SumOver(Household, ActivePositions(Household)) = RelativeDeltaSum(out)
        /\ out.discrepancy <=> ~FLess(ComputedDifference, Three)
        /\ DecimalDifference <= 299 => ~out.discrepancy
        /\ DecimalDifference >= 301 => out.discrepancy
        /\ DecimalDifference = 300 /\ ~out.discrepancy
              => FLess(ComputedDifference, Three)
        /\ out.status = "done" /\ out.story /\ out.waterfall_data # <<>>

\* a pass whose record has a difference of exactly 3.00 between its amounts,
\* whose check computes a difference below 3 and reports nothing, and which
\* runs to its end
C4_Witness ==
    /\ out.verified
    /\ ~out.discrepancy
    /\ DecimalDifference = 300
    /\ FLess(ComputedDifference, Three)
    /\ out.story

\* a pass whose check computes a difference of exactly 3 and reports it
C4_ReportedAtThree ==
    /\ out.verified
    /\ out.discrepancy
    /\ ComputedDifference = Three
    /\ out.story

\* C8: with neither tax type selected the pass reports the error and stops
\* before the impact summary, the component list, the waterfall and the
\* verification; with a type selected the check blocks none of them
C8_NoTaxTypeBlocks ==
    out.found =>
        /\ out.status = "no tax type" <=> (~inp.show_federal /\ ~inp.show_state)
        /\ out.status = "no tax type" =>
              /\ ~out.summary /\ ~out.components /\ ~out.verified /\ ~out.story
              /\ out.waterfall_data = <<>> /\ out.active_components = <<>>
        /\ (inp.show_federal \/ inp.show_state) =>
              /\ out.summary /\ out.components /\ out.story /\ out.status = "done"
              /\ ActivePositions(Household) # {} =>
                    out.waterfall_data # <<>> /\ out.verified

\* a pass stopped by the check for a household with active components
C8_Witness ==
    /\ out.found
    /\ out.status = "no tax type"
    /\ ~inp.show_federal /\ ~inp.show_state
    /\ ActivePositions(Household) # {}

\* the k-th smallest element of a set of catalog positions
KthPosition(positions, k) ==
    CHOOSE p \in positions : Cardinality({q \in positions : q < p}) = k - 1

\* the waterfall is the baseline step, one relative step per active
\* component in catalog order, and the final step
ExactSequence(o, h) ==
    LET active == ActivePositions(h)
        n == Cardinality(active)
    IN /\ Len(o.waterfall_data) = n + 2
       /\ o.waterfall_data[1].measure = "absolute"
       /\ o.waterfall_data[1].x = "Baseline"
       /\ \A j \in 1..n :
             /\ o.waterfall_data[j + 1].measure = "relative"
             /\ o.waterfall_data[j + 1].x = reform_configs[KthPosition(active, j)]
             /\ o.waterfall_data[j + 1].y = -h.IncomeChangeAfter[KthPosition(active, j)]
       /\ o.waterfall_data[n + 2].measure = "total"
       /\ o.waterfall_data[n + 2].x = "Final"

\* C9 as stated: every pass with a valid flag configuration produces the
\* exact sequence, a household with no active component included
C9_SequenceForEveryHousehold ==
    out.status = "done" => ExactSequence(out, Household)

\* C9 amended: a household with an active component gets the exact sequence,
\* a household with none gets no waterfall at all
C9_SequenceWhenActive ==
    out.status = "done" =>
        IF ActivePositions(Household) # {}
        THEN ExactSequence(out, Household)
        ELSE out.waterfall_data = <<>> /\ ~out.verified

\* a waterfall of two active components, one of them just above the
\* threshold, the other a loss of net income
C9_Witness ==
    /\ out.status = "done"
    /\ Cardinality(ActivePositions(Household)) = 2
    /\ Len(out.waterfall_data) = 4
    /\ out.waterfall_data[2].y # out.waterfall_data[3].y
    /\ \E k \in ActivePositions(Household) : Household.IncomeChangeAfter[k] = 2
    /\ \E k \in ActivePositions(Household) : Household.IncomeChangeAfter[k] < 0

\* C10: the baseline total is the baseline federal tax when show_federal is
\* set plus the State Income Tax of the record when show_state is set
C10_BaselineIncludesStateTax ==
    out.waterfall_data # <<>> =>
        out.baseline_total =
            (IF inp.show_federal THEN Household.BaselineFederalTax ELSE 0)
              + (IF inp.show_state THEN Household.StateIncomeTax ELSE 0)

\* s is t with some rows left out, the others in their order
RECURSIVE IsSubSeq(_, _)
IsSubSeq(s, t) ==
    IF s = <<>> THEN TRUE
    ELSE IF t = <<>> THEN FALSE
    ELSE IF Head(s) = Head(t) THEN IsSubSeq(Tail(s), Tail(t))
    ELSE IsSubSeq(s, Tail(t))

\* C5: for every store and every combination of the six criteria the
\* filtered result is a subset of the store, and applying the same criteria
\* to the result returns the result
C5_FilterSubsetIdempotent ==
    out.status # "start" =>
        /\ Range(out.df_filtered) \subseteq Range(df)
        /\ IsSubSeq(out.df_filtered, df)
        /\ ApplyFilters(out.df_filtered, inp) = out.df_filtered

\* a pass with three criteria set that keeps one row of a larger store
C5_Witness ==
    /\ out.status = "done"
    /\ Len(out.df_filtered) = 1
    /\ Len(df) >= 2
    /\ inp.weight # 1 /\ inp.dependents # "All" /\ inp.age # 1

\* C7: a pass whose criteria leave no household reports that and halts before
\* selection, lookup and waterfall, leaving the persisted key alone; the pass
\* after a halted one, once the criteria match a household, runs its selection
C7_EmptyFilterHaltsThatPassOnly ==
    [][/\ out'.status = "no households match" <=> Len(ApplyFilters(df, inp')) = 0
       /\ Len(ApplyFilters(df, inp')) = 0 =>
             /\ ~out'.selected /\ ~out'.found /\ ~out'.summary /\ ~out'.story
             /\ out'.household_id = NoId /\ out'.waterfall_data = <<>>
             /\ ~out'.verified
             /\ random_household' = random_household
       /\ (out.status = "no households match" /\ Len(ApplyFilters(df, inp')) > 0) =>
             /\ out'.selected
             /\ out'.household_id # NoId]_vars

\* a halted pass in a session that holds a drawn key
C7_Witness ==
    /\ out.status = "no households match"
    /\ Len(ApplyFilters(df, inp)) = 0
    /\ random_household # NoId
    /\ inp.selection_method = "Random Shuffle"

\* the ranking column and direction of a case type
CaseColumn(case_type, r) ==
    CASE case_type \in {"Largest % Federal Tax Increase", "Largest % Federal Tax Decrease"} ->
             r.PctChangeFederal
      [] case_type \in {"Largest Federal Tax Increase", "Largest Federal Tax Decrease"} ->
             r.TotalChangeFederal
      [] case_type \in {"Largest % Income Increase", "Largest % Income Decrease"} ->
             r.PctChangeNetIncome
      [] case_type \in {"Largest Income Increase", "Largest Income Decrease"} ->
             r.TotalChangeNetIncome

CaseDescending(case_type) ==
    case_type \in {"Largest % Federal Tax Increase", "Largest Federal Tax Increase",
                   "Largest % Income Increase", "Largest Income Increase"}

\* the position in the filtered set of the row with the given id
PositionOf(o, id) == CHOOSE p \in 1..Len(o.df_filtered) : o.df_filtered[p].HouseholdID = id

\* a before b in the order of the case type
RanksBefore(case_type, a, b) ==
    IF CaseDescending(case_type) THEN CaseColumn(case_type, a) > CaseColumn(case_type, b)
    ELSE CaseColumn(case_type, a) < CaseColumn(case_type, b)

\* the pass has run the Find Interesting Cases branch
RankedPass(i, o) == i.selection_method = "Find Interesting Cases" /\ o.selected

\* the record of the store with the given id
RecordOf(id) == df[CHOOSE p \in 1..Len(df) : df[p].HouseholdID = id]

\* the ids of the records of the store that the criteria of the pass keep
KeptIDs == {r.HouseholdID : r \in Range(ApplyFilters(df, inp))}

\* the ranked list but for the order of equal values: min(20, size of the
\* filtered set) entries, all of them records that the criteria keep, ordered
\* by the metric of the case type, no record left out that ranks before an
\* entry; entry k is labelled #k and maps back to its record
RankedListOrdered ==
    LET ids == out.household_ids
        n == Len(ids)
    IN /\ n = Min(20, Cardinality(KeptIDs))
       /\ Len(out.ranked_options) = n
       /\ \A k \in 1..n :
             /\ ids[k] \in KeptIDs
             /\ inp.state # "All States" => RecordOf(ids[k]).State = inp.state
       /\ \A k, l \in 1..n : k < l =>
             /\ ids[k] # ids[l]
             /\ ~RanksBefore(inp.case_type, RecordOf(ids[l]), RecordOf(ids[k]))
       /\ \A id \in KeptIDs \ Range(ids) :
             \A k \in 1..n :
                ~RanksBefore(inp.case_type, RecordOf(id), RecordOf(ids[k]))
       /\ \A k \in 1..n :
             /\ out.ranked_options[k].rank = k
             /\ IndexOf(out.ranked_options, out.ranked_options[k]) = k
       /\ out.picked \in 1..n
       /\ out.household_id = ids[out.picked]

\* the entries of equal metric value appear in original row order
TiesInRowOrder ==
    LET ids == out.household_ids
    IN \A k, l \in 1..Len(ids) :
          /\ k < l
          /\ CaseColumn(inp.case_type, RecordOf(ids[k]))
                = CaseColumn(inp.case_type, RecordOf(ids[l]))
          => PositionOf(out, ids[k]) < PositionOf(out, ids[l])

C6_TiesOutOfRowOrder ==
    /\ RankedPass(inp, out)
    /\ Len(out.df_filtered) <= 20
    /\ RankedListOrdered
    /\ ~TiesInRowOrder

\* a list cut at 20 that keeps the earlier of two records of equal metric
\* value and leaves the later out
C6_TieAtTheCut ==
    /\ RankedPass(inp, out)
    /\ Len(out.df_filtered) > 20
    /\ \E id \in KeptIDs \ Range(out.household_ids) :
          CaseColumn(inp.case_type, RecordOf(id))
             = CaseColumn(inp.case_type, RecordOf(out.household_ids[20]))

\* the pass just run is a Random Shuffle pass triggered by the re-draw button
RedrawPass == inp'.selection_method = "Random Shuffle" /\ inp'.button /\ out'.selected

\* C11 as stated: the persisted key changes only in a pass where the re-draw
\* action is fired; By Household ID and Find Interesting Cases passes and
\* Random Shuffle passes without the action leave it unchanged
C11_KeyChangesOnlyOnRedraw ==
    [][random_household' # random_household => RedrawPass]_vars

\* C11 amended: the key changes only in a Random Shuffle pass that gets past
\* the filters and either has the re-draw action fired or finds no key yet
\* (the initial draw); the new key is an id of that pass's filtered set; every
\* other pass leaves the key unchanged
C11_KeyChangesOnRedrawOrInitialDraw ==
    [][/\ random_household' # random_household =>
             /\ inp'.selection_method = "Random Shuffle"
             /\ out'.selected
             /\ out'.sampled
             /\ inp'.button \/ random_household = NoId
             /\ random_household' \in FilteredIDs(out')
       /\ (inp'.selection_method # "Random Shuffle" \/ ~out'.selected
             \/ (~inp'.button /\ random_household # NoId)) =>
             random_household' = random_household]_vars

\* a Random Shuffle pass without the re-draw action that made the initial draw
C11_Witness ==
    /\ RandomPass(inp, out)
    /\ ~inp.button
    /\ out.sampled
    /\ random_household # NoId
    /\ random_household = out.household_id

\* the impact level and direction of the story summary for an amount x
StoryLevel(x) ==
    IF Abs(x) > 100000 THEN "significantly"
    ELSE IF Abs(x) > 10000 THEN "moderately"
    ELSE "minimally"

StoryDirection(x) == IF x > 0 THEN "benefits from" ELSE "is burdened by"

\* C12: the impact level and the direction of the story summary are those of
\* the household's Total Change in Net Income, whatever the per-component
\* deltas are and whether or not a component is active
C12_StoryUsesTotalChange ==
    out.story =>
        /\ out.impact_level = StoryLevel(Household.TotalChangeNetIncome)
        /\ out.direction = StoryDirection(Household.TotalChangeNetIncome)

====
